---- MODULE Spec2Model ----
(***************************************************************************)
(* The Maldo Python SDK client (packages/sdk/python/maldo/client.py) as a  *)
(* state machine.  A call of a client operation is split at its blocking   *)
(* network reads: one step issues the HTTP request, the next receives the  *)
(* server's answer (any status, content type and body) and runs the rest   *)
(* of the handler up to its return, its raise or its next request.         *)
(***************************************************************************)
EXTENDS Integers, Sequences, FiniteSets, TLC

VARIABLES
    api_url,    \* the argument MaldoClient was constructed with
    base_url,   \* MaldoClient.base_url
    pc,         \* where the one synchronous caller is blocked
    op,         \* the operation in progress (or the last one)
    sent,       \* the HTTP requests issued by that call, in order
    res,        \* the last HTTP response received by that call
    reqs,       \* X402Namespace.request's local `reqs`
    outcome,    \* how the call ended: a returned value or a raised exception
    calls,      \* calls of _get/_post/_put/_delete made so far
    issued,     \* HTTP requests issued by those calls so far
    \* examples/web_native_agent.py, main() from its payment POST on:
    main_pc,    \* where main() is ("off" while the script is not running)
    attempt,    \* the poll loop's `attempt`
    result,     \* the body of the last poll answer (`result`)
    polls,      \* GETs of /x402/deals/{nonce}/result issued
    completes,  \* POSTs to /api/v1/deals/{nonce}/complete issued
    main_end    \* how main() ended

client_vars ==
    <<api_url, base_url, pc, op, sent, res, reqs, outcome, calls, issued>>

main_vars == <<main_pc, attempt, result, polls, completes, main_end>>

vars == <<client_vars, main_vars>>

---------------------------------------------------------------------------
\* Bounds of the model.

\* Trailing slashes the constructor argument may carry.
MaxSlashes == 2
\* Largest amount a payment-requirements body reports, largest max_price.
MaxAmount == 2
\* Calls of the request helpers in one behaviour.
MaxCalls == 2

---------------------------------------------------------------------------
\* Strings are sequences of tokens; "/" is the slash character.

RECURSIVE Slashes(_)
Slashes(k) == IF k = 0 THEN <<>> ELSE <<"/">> \o Slashes(k - 1)

\* Base URLs without their trailing slashes: a bare host, and a host with a
\* path prefix whose inner slash must survive normalisation.
Hosts == { <<"h">>, <<"h", "/", "p">> }

ApiUrls == { h \o Slashes(k) : h \in Hosts, k \in 0..MaxSlashes }

\* A normalisation that drops one trailing slash only.
rstrip_once(s) ==
    IF Len(s) > 0 /\ s[Len(s)] = "/" THEN SubSeq(s, 1, Len(s) - 1) ELSE s

\* str.rstrip("/"): drops every trailing slash.
RECURSIVE rstrip(_)
rstrip(s) ==
    IF Len(s) > 0 /\ s[Len(s)] = "/"
    THEN rstrip(SubSeq(s, 1, Len(s) - 1))
    ELSE s

\* Optional[T]: <<>> is None, <<x>> is the value x.
None == <<>>
Some(x) == <<x>>

---------------------------------------------------------------------------
\* HTTP responses.  The server is an external collaborator: it may answer
\* any request with any of these.

Statuses == {200, 304, 402, 404, 500}

reason(status) ==
    CASE status = 200 -> "OK"
      [] status = 304 -> "Not Modified"
      [] status = 402 -> "Payment Required"
      [] status = 404 -> "Not Found"
      [] status = 500 -> "Internal Server Error"

\* Content-Type header of the response.
ContentTypes == {"application/json", "text/html"}

\* content_type.startswith("application/json")
startswith_json(content_type) == content_type = "application/json"

\* A response body.  kind: "empty" (no body), "text" (not JSON), "array" (JSON,
\* not an object), "object".  An object may hold an `error` member and a
\* `requirements` member, which is absent, not an object ("scalar") or an
\* object whose `amount` is absent, a non-numeric string ("text") or an
\* integer.
Body(kind, error, requirements, amount_kind, amount) ==
    [kind |-> kind, error |-> error, requirements |-> requirements,
     amount_kind |-> amount_kind, amount |-> amount]

NoBody == Body("empty", "absent", "absent", "absent", 0)

ObjectBodies ==
    { Body("object", e, "absent", "absent", 0) : e \in {"absent", "no such agent"} }
    \cup { Body("object", "absent", "scalar", "absent", 0) }
    \cup { Body("object", "absent", "object", k, 0) : k \in {"absent", "text"} }
    \cup { Body("object", e, "object", "int", n) :
             e \in {"absent", "payment required"}, n \in 0..MaxAmount }

Bodies ==
    { NoBody, Body("text", "absent", "absent", "absent", 0),
      Body("array", "absent", "absent", "absent", 0) } \cup ObjectBodies

Responses ==
    [status_code : Statuses, content_type : ContentTypes, body : Bodies]

NoResponse == [status_code |-> 0, content_type |-> "", body |-> NoBody]

\* requests.Response.ok: raise_for_status() raises for 400 <= status < 600.
ok(r) == ~(400 <= r.status_code /\ r.status_code < 600)

---------------------------------------------------------------------------
\* Outcomes of a call.

NoOutcome == [kind |-> "none", status |-> 0, message |-> <<>>, value |-> NoBody]

Return(body) ==
    [kind |-> "return", status |-> 0, message |-> <<>>, value |-> body]

\* raise MaldoApiError(status, message)
MaldoApiError(status, message) ==
    [kind |-> "MaldoApiError", status |-> status, message |-> message,
     value |-> NoBody]

\* Any other exception, which the client does not catch.
Raise(exception) ==
    [kind |-> exception, status |-> 0, message |-> <<>>, value |-> NoBody]

\* Whether res.json() parses the body.
is_json(body) == body.kind \in {"array", "object"}

\* A decoder that hands back whatever the body holds.
json_lenient(r) == Return(r.body)

\* res.json(): the parsed body, or the decoder's exception.
json(r) == IF is_json(r.body) THEN Return(r.body) ELSE Raise("JSONDecodeError")

\* The error branch shared by the four helpers:
\*   data = res.json() if <content type is JSON> else {}
\*   raise MaldoApiError(res.status_code, data.get("error", res.reason))
raise_api_error(r) ==
    IF startswith_json(r.content_type)
    THEN IF ~is_json(r.body) THEN Raise("JSONDecodeError")
         ELSE IF r.body.kind # "object" THEN Raise("AttributeError")
         ELSE IF r.body.error # "absent"
              THEN MaldoApiError(r.status_code, <<r.body.error>>)
              ELSE MaldoApiError(r.status_code, <<reason(r.status_code)>>)
    ELSE MaldoApiError(r.status_code, <<reason(r.status_code)>>)

\* MaldoClient._get, from the response on.
_get(r) == IF ~ok(r) THEN raise_api_error(r) ELSE json(r)

\* A _post that treats 402 like _get, _put and _delete do.
_post_raises_402(r) == IF ~ok(r) THEN raise_api_error(r) ELSE json(r)

\* MaldoClient._post, from the response on.
_post(r) == IF ~ok(r) /\ r.status_code # 402 THEN raise_api_error(r) ELSE json(r)

\* MaldoClient._put, from the response on.
_put(r) == IF ~ok(r) THEN raise_api_error(r) ELSE json(r)

\* MaldoClient._delete, from the response on.
_delete(r) == IF ~ok(r) THEN raise_api_error(r) ELSE json(r)

---------------------------------------------------------------------------
\* The operations of the four groups: each is one call of a request helper
\* with a fixed path and the marshalled arguments (the keys of the JSON
\* body, the query parameters).

Call(name, method, path, params, body) ==
    [name |-> name, method |-> method, path |-> path, params |-> params,
     json |-> body, max_price |-> None]

\* Identifiers passed by the caller (agent ids, nonces, principals, ...).
Ids == {"x"}

health == Call("health", "GET", <<"/health">>, {}, {})

agents_register ==
    Call("agents.register", "POST", <<"/api/v1/services/register">>, {},
         {"name", "description", "capabilities", "basePrice", "endpoint", "wallet"})

agents_discover(min_rep) ==
    Call("agents.discover", "GET", <<"/api/v1/services/discover">>,
         IF min_rep # None THEN {"capability", "limit", "minRep"}
                           ELSE {"capability", "limit"},
         {})

agents_get(agent_id) ==
    Call("agents.get", "GET", <<"/api/v1/agents/", agent_id>>, {}, {})

agents_list == Call("agents.list", "GET", <<"/api/v1/agents">>, {}, {})

agents_reputation(agent_id) ==
    Call("agents.reputation", "GET",
         <<"/api/v1/agents/", agent_id, "/reputation">>, {}, {})

agents_rate(agent_id) ==
    Call("agents.rate", "POST", <<"/api/v1/agents/", agent_id, "/rate">>, {},
         {"dealNonce", "raterAddress", "score", "comment"})

agents_vouch(vouchee_agent_id) ==
    Call("agents.vouch", "POST",
         <<"/api/v1/agents/", vouchee_agent_id, "/vouch">>, {},
         {"voucherAgentId", "voucherWallet", "signature"})

agents_vouches(agent_id) ==
    Call("agents.vouches", "GET",
         <<"/api/v1/agents/", agent_id, "/vouches">>, {}, {})

deals_create(principal) ==
    Call("deals.create", "POST", <<"/api/v1/deals/create">>, {},
         {"agentId", "clientAddress", "priceUSDC", "taskDescription"}
         \cup (IF principal # None THEN {"principal"} ELSE {}))

deals_status(nonce) ==
    Call("deals.status", "GET", <<"/api/v1/deals/", nonce, "/status">>, {}, {})

deals_approve(approval_id) ==
    Call("deals.approve", "POST",
         <<"/api/v1/deals/approve/", approval_id>>, {}, {})

deals_reject(approval_id) ==
    Call("deals.reject", "POST",
         <<"/api/v1/deals/reject/", approval_id>>, {}, {})

deals_pending(principal) ==
    Call("deals.pending", "GET",
         <<"/api/v1/deals/pending/", principal>>, {}, {})

deals_list == Call("deals.list", "GET", <<"/api/v1/deals">>, {}, {})

criteria_get(principal) ==
    Call("criteria.get", "GET",
         <<"/api/v1/principals/", principal, "/criteria">>, {}, {})

criteria_apply_preset(principal) ==
    Call("criteria.apply_preset", "PUT",
         <<"/api/v1/principals/", principal, "/criteria">>, {}, {"preset"})

criteria_evaluate ==
    Call("criteria.evaluate", "POST", <<"/api/v1/criteria/evaluate">>, {},
         {"principal", "agentId", "price"})

x402_poll_result(nonce) ==
    Call("x402.poll_result", "GET",
         <<"/x402/deals/", nonce, "/result">>, {}, {})

\* The operations that are one call of _get.
GetOperations ==
    { health, agents_list, deals_list }
    \cup { agents_discover(m) : m \in {None, Some(1)} }
    \cup UNION { { agents_get(i), agents_reputation(i), agents_vouches(i),
                   deals_status(i), deals_pending(i), criteria_get(i),
                   x402_poll_result(i) } : i \in Ids }

\* The operations that are one call of _post.
PostOperations ==
    { agents_register, criteria_evaluate }
    \cup { deals_create(p) : p \in {None, Some("x")} }
    \cup UNION { { agents_rate(i), agents_vouch(i), deals_approve(i),
                   deals_reject(i) } : i \in Ids }

\* The operations that are one call of _put.
PutOperations == { criteria_apply_preset(i) : i \in Ids }

\* No operation of the groups uses _delete: it is called with a path.
DeleteOperations ==
    { Call("_delete", "DELETE", <<"/api/v1/agents/", i>>, {}, {}) : i \in Ids }

\* Capabilities a caller asks the x402 path for.
Capabilities == {"market-analysis"}

\* max_price arguments of x402.request: None, or an integer.
MaxPrices == {None} \cup { Some(x) : x \in (-1)..MaxAmount }

x402_path(capability) == <<"/x402/services/", capability>>

x402_get_requirements(capability) ==
    [name |-> "x402.get_requirements", method |-> "GET",
     path |-> x402_path(capability), params |-> {}, json |-> {},
     max_price |-> None]

x402_request(capability, max_price) ==
    [name |-> "x402.request", method |-> "POST",
     path |-> x402_path(capability), params |-> {},
     json |-> {"taskDescription", "clientAddress"}, max_price |-> max_price]

NoOperation ==
    [name |-> "", method |-> "", path |-> <<>>, params |-> {}, json |-> {},
     max_price |-> None]

---------------------------------------------------------------------------
\* HTTP requests as the `requests` library is asked to send them.

Request(method, url, headers, params, body) ==
    [method |-> method, url |-> url, headers |-> headers, params |-> params,
     json |-> body]

\* requests.get(f"{self.base_url}{path}", params=params)
requests_get(path, params) ==
    Request("GET", base_url \o path, {}, params, {})

\* requests.post(f"{self.base_url}{path}", json=body,
\*               headers={"Content-Type": "application/json"})
requests_post(path, body) ==
    Request("POST", base_url \o path, {"Content-Type"}, {}, body)

\* requests.put(f"{self.base_url}{path}", json=body,
\*              headers={"Content-Type": "application/json"})
requests_put(path, body) ==
    Request("PUT", base_url \o path, {"Content-Type"}, {}, body)

\* requests.delete(f"{self.base_url}{path}")
requests_delete(path) ==
    Request("DELETE", base_url \o path, {}, {}, {})

---------------------------------------------------------------------------
\* A get_requirements that goes through _get, for which 402 is an error.
get_requirements_via_get(r) == _get(r)

\* X402Namespace.get_requirements, from the response on: return res.json(),
\* whatever the status.
get_requirements(r) == json(r)

\* X402Namespace.request, between the requirements lookup and the POST.

\* Python truthiness of `max_price`: None and 0 are false.
truthy(max_price) == max_price # None /\ max_price[1] # 0

\* if max_price and int(reqs.get("requirements", {}).get("amount", 0)) > max_price:
\*     raise MaldoApiError(402, f"Price {reqs['requirements']['amount']} exceeds max {max_price}")
\* NoOutcome when the statement falls through to the POST.
price_check(r, max_price) ==
    IF ~truthy(max_price) THEN NoOutcome
    ELSE IF r.kind # "object" THEN Raise("AttributeError")
    ELSE IF r.requirements = "scalar" THEN Raise("AttributeError")
    ELSE IF r.requirements = "object" /\ r.amount_kind = "text"
         THEN Raise("ValueError")
    ELSE LET amount == IF r.requirements = "object" /\ r.amount_kind = "int"
                       THEN r.amount ELSE 0
         IN  IF amount > max_price[1]
             THEN IF r.requirements = "absent" \/ r.amount_kind = "absent"
                  THEN Raise("KeyError")
                  ELSE MaldoApiError(402, <<"Price", ToString(r.amount),
                                            "exceeds max", ToString(max_price[1])>>)
             ELSE NoOutcome

---------------------------------------------------------------------------
\* The state machine.

\* The body of a poll answer of the example script: not JSON, a JSON array,
\* or an object whose `status` is absent or one of the delivery statuses and
\* whose `result` member is absent, an object, or another JSON value
\* ("scalar").
PollBody(kind, status, member) ==
    [kind |-> kind, status |-> status, result |-> member]

\* No poll answered yet.
NoPoll == PollBody("none", "absent", "absent")

\* MaldoClient.__init__
Init ==
    /\ api_url \in ApiUrls
    /\ base_url = rstrip(api_url)
    /\ pc = "idle"
    /\ op = NoOperation
    /\ sent = <<>>
    /\ res = NoResponse
    /\ reqs = NoBody
    /\ outcome = NoOutcome
    /\ calls = 0
    /\ issued = 0
    /\ main_pc = "off"
    /\ attempt = 0
    /\ result = NoPoll
    /\ polls = 0
    /\ completes = 0
    /\ main_end = ""

\* A helper is entered with request `q` for operation `c`.
enter_helper(c, q, helper) ==
    /\ pc = "idle"
    /\ calls < MaxCalls
    /\ op' = c
    /\ sent' = <<q>>
    /\ pc' = helper
    /\ res' = NoResponse
    /\ reqs' = NoBody
    /\ outcome' = NoOutcome
    /\ calls' = calls + 1
    /\ issued' = issued + 1
    /\ UNCHANGED <<api_url, base_url>>

\* A helper receives response `r` and ends with outcome `o`.
leave_helper(r, o) ==
    /\ res' = r
    /\ outcome' = o
    /\ pc' = "idle"
    /\ UNCHANGED <<api_url, base_url, op, sent, reqs, calls, issued>>

\* _get up to requests.get(...)
get_send ==
    \E c \in GetOperations : enter_helper(c, requests_get(c.path, c.params), "_get")

\* A _get that sends its request once more after a server error.
get_recv_retry ==
    /\ pc = "_get"
    /\ \E r \in Responses :
        IF r.status_code >= 500 /\ Len(sent) < 2
        THEN /\ res' = r
             /\ sent' = Append(sent, sent[1])
             /\ issued' = issued + 1
             /\ UNCHANGED <<api_url, base_url, pc, op, reqs, outcome, calls>>
        ELSE leave_helper(r, _get(r))

\* _get from the response on
get_recv ==
    /\ pc = "_get"
    /\ \E r \in Responses : leave_helper(r, _get(r))

\* _post up to requests.post(...), called by an operation of the groups
post_send ==
    \E c \in PostOperations : enter_helper(c, requests_post(c.path, c.json), "_post")

\* _post from the response on (also the tail of x402.request)
post_recv ==
    /\ pc = "_post"
    /\ \E r \in Responses : leave_helper(r, _post(r))

\* _put up to requests.put(...)
put_send ==
    \E c \in PutOperations : enter_helper(c, requests_put(c.path, c.json), "_put")

\* _put from the response on
put_recv ==
    /\ pc = "_put"
    /\ \E r \in Responses : leave_helper(r, _put(r))

\* _delete up to requests.delete(...)
delete_send ==
    \E c \in DeleteOperations : enter_helper(c, requests_delete(c.path), "_delete")

\* _delete from the response on
delete_recv ==
    /\ pc = "_delete"
    /\ \E r \in Responses : leave_helper(r, _delete(r))

\* x402.get_requirements up to requests.get(...); `c` is the operation the
\* caller invoked (get_requirements itself, or request, which calls it first).
enter_get_requirements(c, at) ==
    /\ pc = "idle"
    /\ op' = c
    /\ sent' = <<requests_get(c.path, {})>>
    /\ pc' = at
    /\ res' = NoResponse
    /\ reqs' = NoBody
    /\ outcome' = NoOutcome
    /\ UNCHANGED <<api_url, base_url, calls, issued>>

\* x402.get_requirements(capability), called by the user
get_requirements_send ==
    \E cap \in Capabilities :
        enter_get_requirements(x402_get_requirements(cap), "get_requirements")

\* x402.get_requirements: return res.json()
get_requirements_recv ==
    /\ pc = "get_requirements"
    /\ \E r \in Responses :
        /\ res' = r
        /\ outcome' = get_requirements(r)
        /\ pc' = "idle"
    /\ UNCHANGED <<api_url, base_url, op, sent, reqs, calls, issued>>

\* A request that skips the requirements lookup when no max_price is given.
request_send_skips_lookup ==
    /\ calls < MaxCalls
    /\ \E cap \in Capabilities, max_price \in MaxPrices :
        IF max_price = None
        THEN /\ enter_helper(x402_request(cap, max_price),
                             requests_post(x402_path(cap),
                                           {"taskDescription", "clientAddress"}),
                             "_post")
        ELSE enter_get_requirements(x402_request(cap, max_price), "request")

\* x402.request(capability, ..., max_price) up to the GET of get_requirements
request_send ==
    /\ calls < MaxCalls
    /\ \E cap \in Capabilities, max_price \in MaxPrices :
        enter_get_requirements(x402_request(cap, max_price), "request")

\* x402.request from the answer to its requirements GET up to its raise or to
\* the requests.post(...) inside _post
request_check ==
    /\ pc = "request"
    /\ \E r \in Responses :
        LET got == get_requirements(r)
            chk == price_check(got.value, op.max_price)
        IN  /\ res' = r
            /\ IF got.kind # "return"
               THEN /\ outcome' = got
                    /\ pc' = "idle"
                    /\ UNCHANGED <<sent, reqs, calls, issued>>
               ELSE IF chk.kind # "none"
               THEN /\ reqs' = got.value
                    /\ outcome' = chk
                    /\ pc' = "idle"
                    /\ UNCHANGED <<sent, calls, issued>>
               ELSE /\ reqs' = got.value
                    /\ sent' = Append(sent, requests_post(op.path, op.json))
                    /\ pc' = "_post"
                    /\ calls' = calls + 1
                    /\ issued' = issued + 1
                    /\ UNCHANGED outcome
    /\ UNCHANGED <<api_url, base_url, op>>

\* The client's operations; none of them touches the example script's state.
Next ==
    \/ get_send /\ UNCHANGED main_vars
    \/ get_recv /\ UNCHANGED main_vars
    \/ post_send /\ UNCHANGED main_vars
    \/ post_recv /\ UNCHANGED main_vars
    \/ put_send /\ UNCHANGED main_vars
    \/ put_recv /\ UNCHANGED main_vars
    \/ delete_send /\ UNCHANGED main_vars
    \/ delete_recv /\ UNCHANGED main_vars
    \/ get_requirements_send /\ UNCHANGED main_vars
    \/ get_requirements_recv /\ UNCHANGED main_vars
    \/ request_send /\ UNCHANGED main_vars
    \/ request_check /\ UNCHANGED main_vars

\* The SDK client in use; the example script is not running.
Spec == Init /\ [][Next]_vars

---------------------------------------------------------------------------
\* examples/web_native_agent.py: main() from its payment POST (step 5) on.
\* The script talks to the server with `requests` directly, not through
\* MaldoClient.

\* for attempt in range(30)
MaxAttempts == 30

\* Bodies of the answer to the payment POST: not JSON, a JSON array, or an
\* object with or without its `nonce` and `dealId` members.
PaymentBodies ==
    [kind : {"text", "array"}, nonce : {FALSE}, dealId : {FALSE}]
    \cup [kind : {"object"}, nonce : BOOLEAN, dealId : BOOLEAN]

\* Bodies of a poll answer.
PollBodies ==
    { PollBody(k, "absent", "absent") : k \in {"text", "array"} }
    \cup { PollBody("object", st, m) :
             st \in {"absent", "pending", "delivered", "expired"},
             m \in {"absent", "object", "scalar"} }

\* result.get("status") == "delivered"
delivered(b) == b.kind = "object" /\ b.status = "delivered"

\* main() has issued the payment POST (line 102) and waits for its answer.
MainInit ==
    /\ api_url = <<"h">>
    /\ base_url = <<"h">>
    /\ pc = "idle"
    /\ op = NoOperation
    /\ sent = <<>>
    /\ res = NoResponse
    /\ reqs = NoBody
    /\ outcome = NoOutcome
    /\ calls = 0
    /\ issued = 0
    /\ main_pc = "submit"
    /\ attempt = 0
    /\ result = NoPoll
    /\ polls = 0
    /\ completes = 0
    /\ main_end = ""

\* main() ends: it returns, or an exception leaves it.
main_stop(how) ==
    /\ main_pc' = "done"
    /\ main_end' = how

\* Lines 113-121 and 145-146: the payment POST is answered.
main_submit_recv ==
    /\ main_pc = "submit"
    /\ \E status \in Statuses, b \in PaymentBodies :
        IF status # 200 THEN main_stop("error")
        ELSE IF b.kind = "object" /\ b.nonce /\ b.dealId
             THEN main_pc' = "loop" /\ UNCHANGED main_end
             ELSE main_stop("exception")
    /\ UNCHANGED <<attempt, result, polls, completes, client_vars>>

\* Lines 122-124: the next iteration sleeps and issues its GET.
main_poll_send ==
    /\ main_pc = "loop"
    /\ attempt < MaxAttempts
    /\ polls' = polls + 1
    /\ main_pc' = "poll"
    /\ UNCHANGED <<attempt, result, completes, main_end, client_vars>>

\* Lines 125-141: the poll is answered; result = r.json(); on "delivered" the
\* content is printed, the complete POST is issued and main() returns.
main_poll_recv ==
    /\ main_pc = "poll"
    /\ \E b \in PollBodies :
        /\ result' = b
        /\ IF b.kind = "text" THEN
              \* r.json() raises
              main_stop("exception") /\ UNCHANGED <<attempt, completes>>
           ELSE IF b.kind # "object" THEN
              \* result.get raises AttributeError
              main_stop("exception") /\ UNCHANGED <<attempt, completes>>
           ELSE IF delivered(b) THEN
              IF b.result = "scalar"
              THEN \* result.get("result", {}).get raises AttributeError
                   main_stop("exception") /\ UNCHANGED <<attempt, completes>>
              ELSE /\ completes' = completes + 1
                   /\ main_stop("delivered")
                   /\ UNCHANGED attempt
           ELSE /\ attempt' = attempt + 1
                /\ main_pc' = "loop"
                /\ UNCHANGED <<completes, main_end>>
    /\ UNCHANGED <<polls, client_vars>>

\* Line 143: range(30) is exhausted.
main_timeout ==
    /\ main_pc = "loop"
    /\ attempt = MaxAttempts
    /\ main_stop("timeout")
    /\ UNCHANGED <<attempt, result, polls, completes, client_vars>>

MainNext ==
    \/ main_submit_recv
    \/ main_poll_send
    \/ main_poll_recv
    \/ main_timeout

\* The script is sequential and every blocking call it makes is answered.
SpecMain == MainInit /\ [][MainNext]_vars /\ WF_vars(MainNext)

---------------------------------------------------------------------------
\* Vocabulary of the properties.

\* The call in progress has ended (returned or raised).
Done == pc = "idle" /\ outcome # NoOutcome

Raised == outcome.kind \notin {"none", "return"}

InRequest == op.name = "x402.request"

\* x402.request has issued its POST to /x402/services/{capability}.
PaymentPosted ==
    /\ InRequest
    /\ \E i \in DOMAIN sent : sent[i].method = "POST"

\* The call that ended was a call of a request helper (an operation of the
\* groups, _delete, or the _post at the end of x402.request); `res` is the
\* response that helper received.
HelperDone ==
    /\ Done
    /\ op.name # "x402.get_requirements"
    /\ InRequest => Len(sent) = 2

HelperMethod == sent[Len(sent)].method

\* The requirements lookup of x402.request was answered and parsed: `reqs`
\* holds what it reported.
RequirementsReported == InRequest /\ is_json(reqs)

\* The lookup reported an amount, and it is greater than x.
ReportsAmountAbove(x) ==
    /\ reqs.kind = "object"
    /\ reqs.requirements = "object"
    /\ reqs.amount_kind = "int"
    /\ reqs.amount > x

Is2xx(status) == 200 <= status /\ status <= 299

\* The message the error translation is to carry for response r.
ExpectedMessage(r) ==
    IF r.body.kind = "object" /\ r.body.error # "absent"
    THEN <<r.body.error>>
    ELSE <<reason(r.status_code)>>

PaymentHeaders ==
    {"Payment-Signature", "Payment-Nonce", "Payment-Amount", "Payment-To"}

\* Exceptions other than MaldoApiError that reading a response body raises.
BodyExceptions == {"JSONDecodeError", "AttributeError", "ValueError", "KeyError"}

---------------------------------------------------------------------------
\* C1: x402.request with a non-None integer max_price X whose requirements
\* lookup reports an amount greater than X raises MaldoApiError with status
\* 402 and issues no POST.
C1_MaxPriceEnforced ==
    (/\ RequirementsReported
     /\ op.max_price # None
     /\ ReportsAmountAbove(op.max_price[1]))
    => /\ ~PaymentPosted
       /\ pc = "idle"
       /\ outcome.kind = "MaldoApiError"
       /\ outcome.status = 402

\* The check does its work for a max_price other than 0: the lookup reported
\* more than X and the call ended in MaldoApiError(402) with the GET alone sent.
C1_RejectedWitness ==
    /\ RequirementsReported
    /\ op.max_price = Some(1)
    /\ ReportsAmountAbove(1)
    /\ Done
    /\ outcome.kind = "MaldoApiError"
    /\ outcome.status = 402
    /\ Len(sent) = 1

\* C2: a request helper that receives a status that is not 2xx (402 on _post
\* aside) raises MaldoApiError with that status, its message the `error`
\* member of the JSON body when there is one and the reason phrase otherwise
\* (body absent, not JSON, or without the member).
C2_ErrorTranslation ==
    (/\ HelperDone
     /\ ~Is2xx(res.status_code)
     /\ ~(HelperMethod = "POST" /\ res.status_code = 402))
    => outcome = MaldoApiError(res.status_code, ExpectedMessage(res))

C4_TwoOutcomes ==
    Done => outcome.kind \in {"return", "MaldoApiError"}

\* C4 as amended: a call ends in one of three ways: it returns the parsed JSON
\* body of its last response, it raises MaldoApiError, or an exception raised
\* while decoding or reading a response body propagates; the third happens
\* only for a body that is empty or not JSON (JSONDecodeError), a JSON value
\* or `requirements` member that is not an object (AttributeError), an amount
\* that is not a number (ValueError), or a missing amount under a negative
\* max_price in x402.request (KeyError).
C4_ThreeOutcomes ==
    Done =>
      /\ outcome.kind \in {"return", "MaldoApiError"} \cup BodyExceptions
      /\ outcome.kind = "return" =>
            is_json(res.body) /\ outcome.value = res.body
      /\ outcome.kind = "JSONDecodeError" => ~is_json(res.body)
      /\ outcome.kind = "AttributeError" =>
            res.body.kind = "array" \/ res.body.requirements = "scalar"
      /\ outcome.kind = "ValueError" =>
            InRequest /\ res.body.amount_kind = "text"
      /\ outcome.kind = "KeyError" =>
            /\ InRequest
            /\ op.max_price # None /\ op.max_price[1] < 0
            /\ res.body.amount_kind # "int"

\* A 200 answer with a body that is not JSON ended the call in the decoder's
\* exception.
C4_Witness ==
    /\ Done
    /\ res.status_code = 200
    /\ ~is_json(res.body)
    /\ outcome.kind = "JSONDecodeError"

\* C5: the POST of x402.request carries the payment headers
\* Payment-Signature, Payment-Nonce, Payment-Amount and Payment-To.
C5_PostCarriesPaymentProof ==
    InRequest =>
      \A i \in DOMAIN sent :
         sent[i].method = "POST" => PaymentHeaders \subseteq sent[i].headers

C7_LookupFailureSurfaced ==
    (/\ InRequest
     /\ res # NoResponse
     /\ pc = "_post" \/ Len(sent) = 1
     /\ res.status_code >= 400 /\ res.status_code # 402)
    => /\ ~PaymentPosted
       /\ pc = "idle"
       /\ Raised

C9_OneRequestPerCall ==
    /\ issued = calls
    /\ (op # NoOperation /\ op.name \notin {"x402.request", "x402.get_requirements"})
         => /\ Len(sent) = 1
            /\ sent[1].method = op.method
    /\ InRequest =>
         Cardinality({i \in DOMAIN sent : sent[i].method = "POST"}) <= 1

\* The last of MaxCalls helper calls was answered 500 and raised, and was not
\* sent again.
C9_Witness ==
    /\ Done
    /\ calls = MaxCalls
    /\ op.name = "x402.poll_result"
    /\ res.status_code = 500
    /\ outcome.kind = "MaldoApiError"
    /\ issued = MaxCalls

\* base_url is api_url without its trailing slashes.
Normalized ==
    /\ \E k \in 0..Len(api_url) : api_url = base_url \o Slashes(k)
    /\ base_url = <<>> \/ base_url[Len(base_url)] # "/"

\* C10: base_url is api_url with every trailing slash removed, no operation
\* changes it (returning or raising), and every request URL is base_url
\* followed by the operation's path.
C10_BaseUrl ==
    /\ [](/\ Normalized
          /\ \A i \in DOMAIN sent : sent[i].url = base_url \o op.path)
    /\ [][base_url' = base_url /\ api_url' = api_url]_vars

\* A client built from a URL with two trailing slashes and an inner slash has
\* had a two-request call raise.
C10_Witness ==
    /\ Done
    /\ api_url = <<"h", "/", "p", "/", "/">>
    /\ base_url = <<"h", "/", "p">>
    /\ Len(sent) = 2
    /\ Raised

\* What holds of the poll loop in every state.
C11_LoopInvariant ==
    /\ polls <= MaxAttempts
    /\ completes <= 1
    /\ main_pc = "loop" =>
          /\ polls = attempt
          /\ completes = 0
          /\ polls > 0 => result.kind = "object" /\ ~delivered(result)
    /\ main_pc = "poll" => polls = attempt + 1 /\ completes = 0
    /\ completes = 1 =>
          main_pc = "done" /\ delivered(result) /\ main_end = "delivered"
    /\ (main_pc = "done" /\ polls > 0 /\ delivered(result)) =>
          completes = IF result.result = "scalar" THEN 0 ELSE 1
    /\ (main_pc = "done" /\ polls > 0 /\ ~delivered(result)) =>
          /\ completes = 0
          /\ result.kind = "object" => polls = MaxAttempts /\ main_end = "timeout"
    /\ main_end = "timeout" => polls = MaxAttempts /\ completes = 0

\* C11 as stated: after a 200 answer to the payment POST the loop ends within
\* 30 GETs; it stops at the first poll whose status is "delivered" and has
\* then issued the complete POST exactly once; after 30 polls that are not
\* delivered it has stopped without the complete POST.
C11_CompleteOnDelivered ==
    /\ polls <= MaxAttempts
    /\ main_pc \in {"loop", "poll"} => completes = 0
    /\ (main_pc = "done" /\ polls > 0 /\ delivered(result)) => completes = 1
    /\ (main_pc = "done" /\ polls > 0 /\ ~delivered(result)) => completes = 0

\* C11, the part that holds whatever the server answers: main() always ends,
\* after at most 30 GETs; it stops at the first poll whose status is
\* "delivered"; the complete POST is issued at most once and only then: once
\* when that body's `result` member is absent or an object, not at all when
\* it is another JSON value (the exception raised on printing the content
\* ends the script first); a poll body that is not a JSON object ends the
\* loop without the complete POST; after 30 polls that are not delivered it
\* stops without it.
C11_PollLoopTerminates ==
    /\ []C11_LoopInvariant
    /\ <>(main_pc = "done")

\* The thirtieth poll was the first delivered one, and the complete POST was
\* issued once.
C11_Witness ==
    /\ main_pc = "done"
    /\ polls = MaxAttempts
    /\ attempt = MaxAttempts - 1
    /\ delivered(result)
    /\ completes = 1

====
